---- MODULE Spec2Model ----
(***************************************************************************)
(* Model of naukri_scraper.py: main() as a sequential pipeline over one    *)
(* browser session, scrape_naukri_jobs as a nested loop over pages and     *)
(* listings, and the pandas / re text processing as operators on           *)
(* sequences of one-character strings.                                     *)
(***************************************************************************)
EXTENDS Integers, Sequences, FiniteSets, TLC

VARIABLES pc, exc, driver, lastOp, quitCalls, started, completed,
          num_pages, i, index, lstLen, loads, jobs,
          df, files, expStats, salStats, locStats, distinct_skill,
          locIn, locOut

vars == <<pc, exc, driver, lastOp, quitCalls, started, completed,
          num_pages, i, index, lstLen, loads, jobs,
          df, files, expStats, salStats, locStats, distinct_skill,
          locIn, locOut>>

mainVars == <<pc, exc, driver, lastOp, quitCalls, started, completed>>
scrapeVars == <<num_pages, i, index, lstLen, loads, jobs>>
analysisVars == <<df, files, expStats, salStats, locStats, distinct_skill>>
locVars == <<locIn, locOut>>

\* ------------------------------------------------------------------ bounds
MaxPages == 2
MaxListings == 2
MaxJobs == 2
MaxRows == 3
MaxFragments == 3

\* ------------------------------------------------------- characters, text
UpperLetters == <<"A","B","C","D","E","F","G","H","I","J","K","L","M",
                  "N","O","P","Q","R","S","T","U","V","W","X","Y","Z">>
LowerLetters == <<"a","b","c","d","e","f","g","h","i","j","k","l","m",
                  "n","o","p","q","r","s","t","u","v","w","x","y","z">>
Digits == <<"0","1","2","3","4","5","6","7","8","9">>

Range(s) == {s[k] : k \in DOMAIN s}

\* \s of the re module
IsSpace(c) == c \in {" ", "\t", "\n", "\r"}
\* \w of the re module
IsWord(c) == c \in Range(UpperLetters) \cup Range(LowerLetters) \cup Range(Digits) \cup {"_"}

Drop(s, k) == SubSeq(s, k + 1, Len(s))
HasPrefixAt(s, p, k) == /\ k + Len(p) - 1 <= Len(s)
                        /\ SubSeq(s, k, k + Len(p) - 1) = p
Contains(s, p) == \E k \in 1..Len(s) : HasPrefixAt(s, p, k)

\* str.lower() on one character and on a string
LowerChar(c) == IF \E k \in 1..26 : UpperLetters[k] = c
                THEN LowerLetters[CHOOSE k \in 1..26 : UpperLetters[k] = c]
                ELSE c
Lower(s) == [k \in DOMAIN s |-> LowerChar(s[k])]

\* str(int)
RECURSIVE ToStr(_)
ToStr(n) == IF n < 10 THEN <<Digits[n + 1]>>
            ELSE ToStr(n \div 10) \o <<Digits[(n % 10) + 1]>>

\* str.split(",")
RECURSIVE SplitComma(_)
SplitComma(s) ==
  IF \E k \in 1..Len(s) : s[k] = ","
  THEN LET k == CHOOSE k \in 1..Len(s) : s[k] = "," /\ \A m \in 1..(k-1) : s[m] # ","
       IN <<SubSeq(s, 1, k - 1)>> \o SplitComma(Drop(s, k))
  ELSE <<s>>

\* sep.join(parts)
RECURSIVE Join(_, _)
Join(parts, sep) ==
  IF parts = <<>> THEN <<>>
  ELSE IF Len(parts) = 1 THEN parts[1]
  ELSE parts[1] \o sep \o Join(Tail(parts), sep)

\* str.replace(old, '')
RECURSIVE StrRemove(_, _)
StrRemove(s, old) ==
  IF s = <<>> THEN <<>>
  ELSE IF HasPrefixAt(s, old, 1) THEN StrRemove(Drop(s, Len(old)), old)
  ELSE <<s[1]>> \o StrRemove(Tail(s), old)

\* str.strip()
RECURSIVE Strip(_)
Strip(s) ==
  IF s = <<>> THEN s
  ELSE IF IsSpace(s[1]) THEN Strip(Tail(s))
  ELSE IF IsSpace(s[Len(s)]) THEN Strip(SubSeq(s, 1, Len(s) - 1))
  ELSE s

\* ------------------------------------------------------------ listing text
Elements == {"title", "comp-name", "loc-wrap", "exp-wrap", "sal-wrap", "tags-gt"}

TitleText == <<"S","D","E","T">>
CompanyText == <<"A","c","m","e">>
LocationText == <<"N","e","w"," ","D","e","l","h","i",","," ","P","u","n","e">>
ExpText == <<"2","-","5"," ","Y","r","s">>
SalaryText == <<"5","-","9"," ","L","a","c","s"," ","P","A">>
SkillTags == << <<"J","a","v","a">>, <<"S","Q","L">> >>
NA == <<"N","A">>

EmptyJobs == [job_no |-> <<>>, roles |-> <<>>, companies |-> <<>>,
              locations |-> <<>>, experience |-> <<>>, salaries |-> <<>>,
              skills |-> <<>>]

NoStats == [counts |-> <<>>, percentages |-> <<>>, total |-> 0]

\* ------------------------------------------------------------------ main()
\* main() with the CSV written after the first plot
MainOrderCsvAfterPlot ==
  <<"initialize_driver", "scrape_naukri_jobs", "process_job_data",
    "analyze_experience", "to_csv", "analyze_salary",
    "clean_and_analyze_locations", "analyze_skills">>

\* the statements of main()'s try block, in program order
MainOrder == <<"initialize_driver", "scrape_naukri_jobs", "process_job_data",
               "to_csv", "analyze_experience", "analyze_salary",
               "clean_and_analyze_locations", "analyze_skills">>

\* program counter reached when the statement named stage has completed
AfterStage(stage) ==
  LET k == CHOOSE k \in 1..Len(MainOrder) : MainOrder[k] = stage
  IN IF k = Len(MainOrder) THEN "finally" ELSE MainOrder[k + 1]

Init ==
  /\ pc = "initialize_driver"
  /\ exc = "none"
  /\ driver = "None"
  /\ lastOp = "none"
  /\ quitCalls = 0
  /\ started = <<>>
  /\ completed = <<>>
  /\ num_pages \in 0..MaxPages
  /\ i = 0
  /\ index = 0
  /\ lstLen = 0
  /\ loads = <<>>
  /\ jobs = EmptyJobs
  /\ df = <<>>
  /\ files = <<>>
  /\ expStats = NoStats
  /\ salStats = NoStats
  /\ locStats = NoStats
  /\ distinct_skill = <<>>
  /\ locIn = <<>>
  /\ locOut = <<>>

\* driver = initialize_driver(): webdriver.Chrome() then maximize_window();
\* either call may raise, and then main's driver is still None
InitializeDriver ==
  /\ pc = "initialize_driver"
  /\ started' = Append(started, "initialize_driver")
  /\ \E outcome \in {"ok", "chrome_raises", "maximize_raises"} :
       \/ /\ outcome = "ok"
          /\ driver' = "webdriver"
          /\ lastOp' = "maximize_window"
          /\ completed' = Append(completed, "initialize_driver")
          /\ pc' = AfterStage("initialize_driver")
          /\ exc' = exc
       \/ /\ outcome = "chrome_raises"
          /\ driver' = driver
          /\ lastOp' = lastOp
          /\ completed' = completed
          /\ pc' = "except"
          /\ exc' = "Exception"
       \/ /\ outcome = "maximize_raises"
          /\ driver' = driver
          /\ lastOp' = "maximize_window"
          /\ completed' = completed
          /\ pc' = "except"
          /\ exc' = "Exception"
  /\ UNCHANGED <<quitCalls>>
  /\ UNCHANGED <<scrapeVars, analysisVars, locVars>>

\* ------------------------------------------------------ scrape_naukri_jobs
\* entry: the jobs dictionary is created and the page loop starts
ScrapeBegin ==
  /\ pc = "scrape_naukri_jobs"
  /\ started' = Append(started, "scrape_naukri_jobs")
  /\ jobs' = EmptyJobs
  /\ i' = 0
  /\ index' = 0
  /\ lstLen' = 0
  /\ loads' = <<>>
  /\ pc' = "for_i"
  /\ UNCHANGED <<exc, driver, lastOp, quitCalls, completed, num_pages>>
  /\ UNCHANGED <<analysisVars, locVars>>

\* for i in range(num_pages): driver.get(...); lst = driver.find_elements(...)
\* the page holds at most MaxListings listings, and no more than would take the
\* recorded rows beyond MaxJobs
LoadPage ==
  /\ pc = "for_i"
  /\ i < num_pages
  /\ loads' = Append(loads, i)
  /\ \E n \in 0..MaxListings : n <= MaxJobs - Len(jobs.job_no) /\ lstLen' = n
  /\ index' = 0
  /\ lastOp' = "find_elements"
  /\ pc' = "for_job"
  /\ UNCHANGED <<exc, driver, quitCalls, started, completed, num_pages, i, jobs>>
  /\ UNCHANGED <<analysisVars, locVars>>

\* jobno = (i * len(lst) + index + 1)
page_jobno(page, len, idx) == page * len + idx + 1

\* the listing loop with the salary looked up by find_element, so that a
\* missing sal-wrap raises NoSuchElementException too
HandleListingSalaryEssential(present) ==
  /\ pc = "for_job"
  /\ index < lstLen
  /\ LET jobno == page_jobno(i, lstLen, index)
         raisesNoSuchElement ==
           \/ "title" \notin present
           \/ "comp-name" \notin present
           \/ "loc-wrap" \notin present
           \/ "exp-wrap" \notin present
           \/ "sal-wrap" \notin present
         skill == IF "tags-gt" \in present THEN Join(SkillTags, <<",">>) ELSE NA
     IN jobs' = IF raisesNoSuchElement THEN jobs
                ELSE [job_no |-> Append(jobs.job_no, jobno),
                      roles |-> Append(jobs.roles, TitleText),
                      companies |-> Append(jobs.companies, CompanyText),
                      locations |-> Append(jobs.locations, LocationText),
                      experience |-> Append(jobs.experience, ExpText),
                      salaries |-> Append(jobs.salaries, SalaryText),
                      skills |-> Append(jobs.skills, skill)]
  /\ index' = index + 1
  /\ lastOp' = "find_element"
  /\ UNCHANGED <<pc, exc, driver, quitCalls, started, completed, num_pages, i, lstLen, loads>>
  /\ UNCHANGED <<analysisVars, locVars>>

\* the listing loop with jobs["job_no"].append(jobno) placed before the try
HandleListingEagerJobNo(present) ==
  /\ pc = "for_job"
  /\ index < lstLen
  /\ LET jobno == page_jobno(i, lstLen, index)
         raisesNoSuchElement ==
           \/ "title" \notin present
           \/ "comp-name" \notin present
           \/ "loc-wrap" \notin present
           \/ "exp-wrap" \notin present
         salary == IF "sal-wrap" \in present THEN SalaryText ELSE NA
         skill == IF "tags-gt" \in present THEN Join(SkillTags, <<",">>) ELSE NA
     IN jobs' = IF raisesNoSuchElement
                THEN [jobs EXCEPT !.job_no = Append(@, jobno)]
                ELSE [job_no |-> Append(jobs.job_no, jobno),
                      roles |-> Append(jobs.roles, TitleText),
                      companies |-> Append(jobs.companies, CompanyText),
                      locations |-> Append(jobs.locations, LocationText),
                      experience |-> Append(jobs.experience, ExpText),
                      salaries |-> Append(jobs.salaries, salary),
                      skills |-> Append(jobs.skills, skill)]
  /\ index' = index + 1
  /\ lastOp' = "find_element"
  /\ UNCHANGED <<pc, exc, driver, quitCalls, started, completed, num_pages, i, lstLen, loads>>
  /\ UNCHANGED <<analysisVars, locVars>>

\* one iteration of "for index, job in enumerate(lst)"; present is the set
\* of class names the listing's DOM contains
HandleListing(present) ==
  /\ pc = "for_job"
  /\ index < lstLen
  /\ LET jobno == page_jobno(i, lstLen, index)
         raisesNoSuchElement ==
           \/ "title" \notin present
           \/ "comp-name" \notin present
           \/ "loc-wrap" \notin present
           \/ "exp-wrap" \notin present
         salary == IF "sal-wrap" \in present THEN SalaryText ELSE NA
         skill == IF "tags-gt" \in present THEN Join(SkillTags, <<",">>) ELSE NA
     IN jobs' = IF raisesNoSuchElement THEN jobs
                ELSE [job_no |-> Append(jobs.job_no, jobno),
                      roles |-> Append(jobs.roles, TitleText),
                      companies |-> Append(jobs.companies, CompanyText),
                      locations |-> Append(jobs.locations, LocationText),
                      experience |-> Append(jobs.experience, ExpText),
                      salaries |-> Append(jobs.salaries, salary),
                      skills |-> Append(jobs.skills, skill)]
  /\ index' = index + 1
  /\ lastOp' = "find_element"
  /\ UNCHANGED <<pc, exc, driver, quitCalls, started, completed, num_pages, i, lstLen, loads>>
  /\ UNCHANGED <<analysisVars, locVars>>

\* the page loop with "if not lst: break"
EndPageBreakOnEmpty ==
  /\ pc = "for_job"
  /\ index = lstLen
  /\ i' = IF lstLen = 0 THEN num_pages ELSE i + 1
  /\ pc' = "for_i"
  /\ UNCHANGED <<exc, driver, lastOp, quitCalls, started, completed, num_pages, index, lstLen, loads, jobs>>
  /\ UNCHANGED <<analysisVars, locVars>>

\* the inner loop is exhausted: next i
EndPage ==
  /\ pc = "for_job"
  /\ index = lstLen
  /\ i' = i + 1
  /\ pc' = "for_i"
  /\ UNCHANGED <<exc, driver, lastOp, quitCalls, started, completed, num_pages, index, lstLen, loads, jobs>>
  /\ UNCHANGED <<analysisVars, locVars>>

\* return jobs, then main's "if not jobs_data['job_no']: return"
ScrapeReturn ==
  /\ pc = "for_i"
  /\ i = num_pages
  /\ completed' = Append(completed, "scrape_naukri_jobs")
  /\ pc' = IF jobs.job_no = <<>> THEN "finally" ELSE AfterStage("scrape_naukri_jobs")
  /\ UNCHANGED <<exc, driver, lastOp, quitCalls, started>>
  /\ UNCHANGED <<scrapeVars, analysisVars, locVars>>

\* ---------------------------------------------------------- process_job_data
\* row k of pd.DataFrame.from_dict(jobs_data)
RawRow(jobs_data, k) ==
  [job_no |-> jobs_data.job_no[k], roles |-> jobs_data.roles[k],
   companies |-> jobs_data.companies[k], locations |-> jobs_data.locations[k],
   experience |-> jobs_data.experience[k], salaries |-> jobs_data.salaries[k],
   skills |-> jobs_data.skills[k]]

\* astype(str).str.lower() on every column, the two split(","), the two
\* str.replace
CleanRow(r) ==
  [job_no |-> Lower(ToStr(r.job_no)),
   roles |-> Lower(r.roles),
   companies |-> Lower(r.companies),
   locations |-> SplitComma(Lower(r.locations)),
   experience |-> StrRemove(Lower(r.experience), <<" ","y","r","s">>),
   salaries |-> StrRemove(Lower(r.salaries), <<" ","l","a","c","s"," ","p","a">>),
   skills |-> SplitComma(Lower(r.skills))]

process_job_data(jobs_data) ==
  [k \in 1..Len(jobs_data.job_no) |-> CleanRow(RawRow(jobs_data, k))]

\* Series.value_counts(): the count of every distinct value
value_counts(col) ==
  [v \in Range(col) |-> Cardinality({k \in DOMAIN col : col[k] = v})]

\* (counts / total) * 100, kept as the exact fraction num / den
Percentages(counts, total) ==
  [v \in DOMAIN counts |-> [num |-> counts[v] * 100, den |-> total]]

Column(d, name) == [k \in DOMAIN d |-> d[k][name]]

\* df.explode(name): one row per element of the list in column name
RECURSIVE Explode(_, _)
Explode(d, name) ==
  IF d = <<>> THEN <<>>
  ELSE [k \in 1..Len(d[1][name]) |-> [job_no |-> d[1].job_no, value |-> d[1][name][k]]]
       \o Explode(Tail(d), name)

\* ------------------------------------------------- replace_location_patterns
\* re.sub(r'\(.*\)', '', s): "." does not match a newline, ".*" is greedy
RECURSIVE SubParen(_)
SubParen(s) ==
  LET LineEnd(k) == IF \E m \in k..Len(s) : s[m] = "\n"
                    THEN (CHOOSE m \in k..Len(s) : s[m] = "\n" /\ \A q \in k..(m-1) : s[q] # "\n") - 1
                    ELSE Len(s)
      Closes(k) == {m \in (k+1)..LineEnd(k) : s[m] = ")"}
      Opens == {k \in 1..Len(s) : s[k] = "(" /\ Closes(k) # {}}
  IN IF Opens = {} THEN s
     ELSE LET k == CHOOSE k \in Opens : \A q \in Opens : k <= q
              m == CHOOSE m \in Closes(k) : \A q \in Closes(k) : q <= m
          IN SubSeq(s, 1, k - 1) \o SubParen(Drop(s, m))

\* number of leading characters of s that match \s*
RECURSIVE SpaceRun(_)
SpaceRun(s) == IF s # <<>> /\ IsSpace(s[1]) THEN 1 + SpaceRun(Tail(s)) ELSE 0

\* re.sub(r'hybrid\s*-\s*', '', s)
RECURSIVE SubHybrid(_)
SubHybrid(s) ==
  IF s = <<>> THEN s
  ELSE IF HasPrefixAt(s, <<"h","y","b","r","i","d">>, 1)
       THEN LET a == Drop(s, 6)
                b == Drop(a, SpaceRun(a))
            IN IF b # <<>> /\ b[1] = "-"
               THEN SubHybrid(Drop(b, 1 + SpaceRun(Tail(b))))
               ELSE <<s[1]>> \o SubHybrid(Tail(s))
       ELSE <<s[1]>> \o SubHybrid(Tail(s))

\* re.sub(r'\bnew\s', '', s), scanning from position k of s
RECURSIVE SubNewFrom(_, _)
SubNewFrom(s, k) ==
  IF k > Len(s) THEN <<>>
  ELSE IF /\ HasPrefixAt(s, <<"n","e","w">>, k)
          /\ k + 3 <= Len(s)
          /\ IsSpace(s[k + 3])
          /\ (k = 1 \/ ~IsWord(s[k - 1]))
       THEN SubNewFrom(s, k + 4)
       ELSE <<s[k]>> \o SubNewFrom(s, k + 1)

\* re.sub(r'\s*', '', s)
RECURSIVE SubSpaces(_)
SubSpaces(s) ==
  IF s = <<>> THEN s
  ELSE IF IsSpace(s[1]) THEN SubSpaces(Tail(s))
  ELSE <<s[1]>> \o SubSpaces(Tail(s))

\* re.sub(r'/.*$', '', s): "$" matches at the end of the string and just
\* before a newline that ends the string
SubSlashToEnd(s) ==
  LET body == IF s # <<>> /\ s[Len(s)] = "\n" THEN Len(s) - 1 ELSE Len(s)
      Starts == {k \in 1..body : s[k] = "/" /\ \A m \in (k+1)..body : s[m] # "\n"}
  IN IF Starts = {} THEN s
     ELSE LET k == CHOOSE k \in Starts : \A q \in Starts : k <= q
          IN SubSeq(s, 1, k - 1) \o SubSeq(s, body + 1, Len(s))

replace_location_patterns(location) ==
  Strip(SubSlashToEnd(SubSpaces(SubNewFrom(SubHybrid(SubParen(location)), 1))))

\* -------------------------------------------------- replace_common_locations
\* number of leading characters of s that match \w*
RECURSIVE WordRun(_)
WordRun(s) == IF s # <<>> /\ IsWord(s[1]) THEN 1 + WordRun(Tail(s)) ELSE 0

\* re.sub(r'\b\w*key\w*\b', repl, s), scanning from position k of s: a whole
\* word that contains key becomes repl
RECURSIVE SubWordFrom(_, _, _, _)
SubWordFrom(s, key, repl, k) ==
  IF k > Len(s) THEN <<>>
  ELSE IF IsWord(s[k])
       THEN LET n == WordRun(Drop(s, k - 1))
                word == SubSeq(s, k, k + n - 1)
            IN (IF Contains(word, key) THEN repl ELSE word)
               \o SubWordFrom(s, key, repl, k + n)
       ELSE <<s[k]>> \o SubWordFrom(s, key, repl, k + 1)

replace_common_locations(location) ==
  LET a == SubWordFrom(location, <<"m","u","m","b","a","i">>, <<"m","u","m","b","a","i">>, 1)
      b == SubWordFrom(a, <<"d","e","l","h","i">>, <<"d","e","l","h","i">>, 1)
      c == SubWordFrom(b, <<"b","a","n","g","a","l">>, <<"b","e","n","g","a","l","u","r","u">>, 1)
      d == SubWordFrom(c, <<"n","o","i","d","a">>, <<"n","o","i","d","a">>, 1)
  IN Strip(d)

\* ------------------------------------------------------- stages after scrape
\* df_raw = process_job_data(jobs_data)
ProcessJobData ==
  /\ pc = "process_job_data"
  /\ started' = Append(started, "process_job_data")
  /\ completed' = Append(completed, "process_job_data")
  /\ df' = process_job_data(jobs)
  /\ pc' = AfterStage("process_job_data")
  /\ UNCHANGED <<exc, driver, lastOp, quitCalls>>
  /\ UNCHANGED <<files, expStats, salStats, locStats, distinct_skill>>
  /\ UNCHANGED <<scrapeVars, locVars>>

\* df_raw.to_csv(...)
WriteCsv ==
  /\ pc = "to_csv"
  /\ started' = Append(started, "to_csv")
  /\ completed' = Append(completed, "to_csv")
  /\ files' = Append(files, "Naukri_SDET.csv")
  /\ pc' = AfterStage("to_csv")
  /\ UNCHANGED <<exc, driver, lastOp, quitCalls>>
  /\ UNCHANGED <<df, expStats, salStats, locStats, distinct_skill>>
  /\ UNCHANGED <<scrapeVars, locVars>>

analyze_experience(d) ==
  LET col == Column(d, "experience")
      experience_counts == value_counts(col)
      total_exp_range == Len(col)
  IN [counts |-> experience_counts,
      percentages |-> Percentages(experience_counts, total_exp_range),
      total |-> total_exp_range]

AnalyzeExperience ==
  /\ pc = "analyze_experience"
  /\ started' = Append(started, "analyze_experience")
  /\ completed' = Append(completed, "analyze_experience")
  /\ expStats' = analyze_experience(df)
  /\ files' = Append(files, "experience_range.png")
  /\ pc' = AfterStage("analyze_experience")
  /\ UNCHANGED <<exc, driver, lastOp, quitCalls>>
  /\ UNCHANGED <<df, salStats, locStats, distinct_skill>>
  /\ UNCHANGED <<scrapeVars, locVars>>

analyze_salary(d) ==
  LET col == Column(d, "salaries")
      salaries_counts == value_counts(col)
      total_salaries == Len(col)
  IN [counts |-> salaries_counts,
      percentages |-> Percentages(salaries_counts, total_salaries),
      total |-> total_salaries]

AnalyzeSalary ==
  /\ pc = "analyze_salary"
  /\ started' = Append(started, "analyze_salary")
  /\ completed' = Append(completed, "analyze_salary")
  /\ salStats' = analyze_salary(df)
  /\ files' = Append(files, "salaries_range.png")
  /\ pc' = AfterStage("analyze_salary")
  /\ UNCHANGED <<exc, driver, lastOp, quitCalls>>
  /\ UNCHANGED <<df, expStats, locStats, distinct_skill>>
  /\ UNCHANGED <<scrapeVars, locVars>>

\* df_location['locations'] after explode and the two apply() calls
df_location(d) ==
  LET exploded == Explode(d, "locations")
  IN [k \in DOMAIN exploded |->
        replace_common_locations(replace_location_patterns(exploded[k].value))]

\* the location percentages taken over len(df) instead of len(df_location)
clean_and_analyze_locations_by_jobs(d) ==
  LET col == df_location(d)
      location_counts == value_counts(col)
      total_location == Len(d)
  IN [counts |-> location_counts,
      percentages |-> Percentages(location_counts, total_location),
      total |-> total_location]

clean_and_analyze_locations(d) ==
  LET col == df_location(d)
      location_counts == value_counts(col)
      total_location == Len(col)
  IN [counts |-> location_counts,
      percentages |-> Percentages(location_counts, total_location),
      total |-> total_location]

CleanAndAnalyzeLocations ==
  /\ pc = "clean_and_analyze_locations"
  /\ started' = Append(started, "clean_and_analyze_locations")
  /\ completed' = Append(completed, "clean_and_analyze_locations")
  /\ locStats' = clean_and_analyze_locations(df)
  /\ files' = files \o <<"job_location_counts.png", "location_wordcloud.png">>
  /\ pc' = AfterStage("clean_and_analyze_locations")
  /\ UNCHANGED <<exc, driver, lastOp, quitCalls>>
  /\ UNCHANGED <<df, expStats, salStats, distinct_skill>>
  /\ UNCHANGED <<scrapeVars, locVars>>

\* Series.unique(): the distinct values in order of first appearance
RECURSIVE Unique(_)
Unique(col) ==
  IF col = <<>> THEN <<>>
  ELSE LET rest == Unique(SubSeq(col, 1, Len(col) - 1))
           v == col[Len(col)]
       IN IF v \in Range(rest) THEN rest ELSE Append(rest, v)

AnalyzeSkills ==
  /\ pc = "analyze_skills"
  /\ started' = Append(started, "analyze_skills")
  /\ completed' = Append(completed, "analyze_skills")
  /\ distinct_skill' = Unique(Column(Explode(df, "skills"), "value"))
  /\ files' = Append(files, "skills_wordcloud.png")
  /\ pc' = AfterStage("analyze_skills")
  /\ UNCHANGED <<exc, driver, lastOp, quitCalls>>
  /\ UNCHANGED <<df, expStats, salStats, locStats>>
  /\ UNCHANGED <<scrapeVars, locVars>>

\* ------------------------------------------------- except / finally of main
\* a statement of the try block after initialize_driver raises: a browser
\* call inside the page loop, or a pandas / matplotlib / wordcloud call of a
\* later stage, before that stage has written anything
Raise(kind) ==
  /\ pc \in {"for_i", "for_job"} \cup
            {MainOrder[k] : k \in 3..Len(MainOrder)}
  /\ pc = "for_i" => i < num_pages
  /\ pc = "for_job" => index < lstLen
  /\ exc' = kind
  /\ pc' = IF kind = "Exception" THEN "except" ELSE "finally"
  /\ started' = IF pc \in {"for_i", "for_job"} THEN started ELSE Append(started, pc)
  /\ loads' = IF pc = "for_i" THEN Append(loads, i) ELSE loads
  /\ lastOp' = IF pc = "for_i" THEN "get"
               ELSE IF pc = "for_job" THEN "find_element" ELSE lastOp
  /\ UNCHANGED <<driver, quitCalls, completed, num_pages, i, index, lstLen, jobs>>
  /\ UNCHANGED <<analysisVars, locVars>>

\* except Exception as e: print(...)
Except ==
  /\ pc = "except"
  /\ exc' = "none"
  /\ pc' = "finally"
  /\ UNCHANGED <<driver, lastOp, quitCalls, started, completed>>
  /\ UNCHANGED <<scrapeVars, analysisVars, locVars>>

\* driver.quit() as the last statement of the try block instead of finally
FinallyQuitAtEndOfTry ==
  /\ pc = "finally"
  /\ IF driver # "None" /\ Len(completed) = 8
     THEN quitCalls' = quitCalls + 1 /\ lastOp' = "quit"
     ELSE UNCHANGED <<quitCalls, lastOp>>
  /\ pc' = "done"
  /\ UNCHANGED <<exc, driver, started, completed>>
  /\ UNCHANGED <<scrapeVars, analysisVars, locVars>>

\* finally: if driver: driver.quit()
Finally ==
  /\ pc = "finally"
  /\ IF driver # "None"
     THEN quitCalls' = quitCalls + 1 /\ lastOp' = "quit"
     ELSE UNCHANGED <<quitCalls, lastOp>>
  /\ pc' = "done"
  /\ UNCHANGED <<exc, driver, started, completed>>
  /\ UNCHANGED <<scrapeVars, analysisVars, locVars>>

Next ==
  \/ InitializeDriver
  \/ ScrapeBegin
  \/ LoadPage
  \/ \E present \in SUBSET Elements : HandleListing(present)
  \/ EndPage
  \/ ScrapeReturn
  \/ ProcessJobData
  \/ WriteCsv
  \/ AnalyzeExperience
  \/ AnalyzeSalary
  \/ CleanAndAnalyzeLocations
  \/ AnalyzeSkills
  \/ \E kind \in {"Exception", "BaseException"} : Raise(kind)
  \/ Except
  \/ Finally

Spec == Init /\ [][Next]_vars

\* ------------------------------- the analysis stages on a range of job tables
\* texts of listings as scraped: location, experience, salary, skills
RowSamples ==
  {[locations |-> <<"N","e","w"," ","D","e","l","h","i",","," ","P","u","n","e">>,
    experience |-> <<"2","-","5"," ","Y","r","s">>, salaries |-> <<"5","-","9"," ","L","a","c","s"," ","P","A">>,
    skills |-> <<"J","a","v","a",",","S","Q","L">>],
   [locations |-> <<"H","y","b","r","i","d"," ","-"," ","N","o","i","d","a","(","X",")">>,
    experience |-> <<"0","-","1"," ","Y","r","s">>, salaries |-> <<"N","o","t"," ","d","i","s","c","l","o","s","e","d">>,
    skills |-> <<"N","A">>],
   [locations |-> <<"B","a","n","g","a","l","o","r","e","/","B","e","n","g","a","l","u","r","u",","," ","N","a","v","i"," ","M","u","m","b","a","i">>,
    experience |-> <<"2","-","5"," ","Y","r","s">>, salaries |-> <<"N","A">>,
    skills |-> <<"S","Q","L">>],
   [locations |-> <<"P","u","n","e">>,
    experience |-> <<"0","-","1"," ","Y","r","s">>, salaries |-> <<"5","-","9"," ","L","a","c","s"," ","P","A">>,
    skills |-> <<"N","A">>]}

\* the jobs dictionary scrape_naukri_jobs returns for the listings rows
JobsOf(rows) ==
  [job_no |-> [k \in DOMAIN rows |-> k],
   roles |-> [k \in DOMAIN rows |-> TitleText],
   companies |-> [k \in DOMAIN rows |-> CompanyText],
   locations |-> [k \in DOMAIN rows |-> rows[k].locations],
   experience |-> [k \in DOMAIN rows |-> rows[k].experience],
   salaries |-> [k \in DOMAIN rows |-> rows[k].salaries],
   skills |-> [k \in DOMAIN rows |-> rows[k].skills]]

Tables == UNION {{JobsOf(rows) : rows \in [1..n -> RowSamples]} : n \in 1..MaxRows}

\* main() at the call of process_job_data, with a non-empty jobs dictionary
InitAnalysis ==
  /\ pc = "process_job_data"
  /\ exc = "none"
  /\ driver = "webdriver"
  /\ lastOp = "find_element"
  /\ quitCalls = 0
  /\ started = SubSeq(MainOrder, 1, 2)
  /\ completed = SubSeq(MainOrder, 1, 2)
  /\ num_pages = 1
  /\ jobs \in Tables
  /\ i = 1
  /\ lstLen = Len(jobs.job_no)
  /\ index = lstLen
  /\ loads = <<0>>
  /\ df = <<>>
  /\ files = <<>>
  /\ expStats = NoStats
  /\ salStats = NoStats
  /\ locStats = NoStats
  /\ distinct_skill = <<>>
  /\ locIn = <<>>
  /\ locOut = <<>>

NextAnalysis ==
  \/ ProcessJobData
  \/ WriteCsv
  \/ AnalyzeExperience
  \/ AnalyzeSalary
  \/ CleanAndAnalyzeLocations
  \/ AnalyzeSkills
  \/ Finally

SpecAnalysis == InitAnalysis /\ [][NextAnalysis]_vars

\* ------------------------------- replace_location_patterns on a range of text
Fragments == {<<"(">>, <<")">>, <<"/">>, <<" ">>, <<"\n">>, <<"a">>, <<"-">>, <<"h","y","b","r","i","d">>, <<"n","e","w">>}

RECURSIVE Concat(_)
Concat(parts) == IF parts = <<>> THEN <<>> ELSE parts[1] \o Concat(Tail(parts))

LocationInputs ==
  UNION {{Concat(parts) : parts \in [1..n -> Fragments]} : n \in 0..MaxFragments}

InitLocation ==
  /\ pc = "replace_location_patterns"
  /\ locIn \in LocationInputs
  /\ locOut = <<>>
  /\ exc = "none"
  /\ driver = "None"
  /\ lastOp = "none"
  /\ quitCalls = 0
  /\ started = <<>>
  /\ completed = <<>>
  /\ num_pages = 0
  /\ i = 0
  /\ index = 0
  /\ lstLen = 0
  /\ loads = <<>>
  /\ jobs = EmptyJobs
  /\ df = <<>>
  /\ files = <<>>
  /\ expStats = NoStats
  /\ salStats = NoStats
  /\ locStats = NoStats
  /\ distinct_skill = <<>>

\* df_location['locations'].apply(replace_location_patterns), one element
ApplyReplaceLocationPatterns ==
  /\ pc = "replace_location_patterns"
  /\ locOut' = replace_location_patterns(locIn)
  /\ pc' = "replaced"
  /\ UNCHANGED <<exc, driver, lastOp, quitCalls, started, completed, locIn>>
  /\ UNCHANGED <<scrapeVars, analysisVars>>

NextLocation == ApplyReplaceLocationPatterns

SpecLocation == InitLocation /\ [][NextLocation]_vars

\* ===================================================================== claims
PipelineOrder == <<"initialize_driver", "scrape_naukri_jobs", "process_job_data",
                   "to_csv", "analyze_experience", "analyze_salary",
                   "clean_and_analyze_locations", "analyze_skills">>
IsPrefix(s, t) == Len(s) <= Len(t) /\ s = SubSeq(t, 1, Len(s))
ScrapeReturned == "scrape_naukri_jobs" \in Range(completed)

\* C1: the stages of main() start in the fixed order initialize_driver,
\* scrape_naukri_jobs, process_job_data, to_csv, analyze_experience,
\* analyze_salary, clean_and_analyze_locations, analyze_skills; each starts
\* only when every earlier one has completed, none starts twice, and the CSV
\* is the first file written, before any plot file.
C1_LinearPipeline ==
  /\ IsPrefix(started, PipelineOrder)
  /\ IsPrefix(completed, started)
  /\ Len(started) - Len(completed) <= 1
  /\ files # <<>> => files[1] = "Naukri_SDET.csv"
  /\ \A k \in DOMAIN files : k > 1 => files[k] # "Naukri_SDET.csv"

C1_Witness ==
  /\ pc = "done"
  /\ completed = PipelineOrder
  /\ Len(files) = 6

\* C2: when main() has ended, driver.quit() has been called exactly once if
\* initialize_driver() returned a driver, whether the run completed, returned
\* early on an empty scrape or raised in a later stage, and never if
\* initialize_driver() raised; quit() is the last browser operation, and it
\* is never called before the end of the run.
C2_QuitExactlyOnce ==
  /\ quitCalls <= 1
  /\ quitCalls = 1 => (pc = "done" /\ lastOp = "quit")
  /\ pc = "done" => quitCalls = (IF driver = "None" THEN 0 ELSE 1)

C2_Witness ==
  /\ pc = "done"
  /\ driver # "None"
  /\ Len(started) > Len(completed)
  /\ quitCalls = 1

\* C3: the pages scrape_naukri_jobs has loaded are always 0, 1, ... in
\* ascending order, each once, and when it returns they are exactly
\* 0 .. num_pages - 1, whether or not pages were empty or listings skipped.
C3_LoadsEveryPage ==
  /\ IsPrefix(loads, [k \in 1..num_pages |-> k - 1])
  /\ ScrapeReturned => loads = [k \in 1..num_pages |-> k - 1]

C3_Witness ==
  /\ ScrapeReturned
  /\ num_pages >= 2
  /\ Len(loads) = num_pages
  /\ jobs.job_no = <<>>

\* C4: handling a listing records it if and only if title, comp-name,
\* loc-wrap and exp-wrap are all present; a listing missing one of them
\* leaves every column unchanged and the loop goes on to the next listing; a
\* recorded listing without sal-wrap has salary "NA" and one without tags-gt
\* has skills "NA".
C4_RecordedIffEssential ==
  [][\A present \in SUBSET Elements :
       HandleListing(present) =>
         /\ pc' = "for_job" /\ index' = index + 1
         /\ IF {"title", "comp-name", "loc-wrap", "exp-wrap"} \subseteq present
            THEN /\ Len(jobs'.job_no) = Len(jobs.job_no) + 1
                 /\ ("sal-wrap" \notin present) <=> (jobs'.salaries[Len(jobs'.salaries)] = <<"N","A">>)
                 /\ ("tags-gt" \notin present) <=> (jobs'.skills[Len(jobs'.skills)] = <<"N","A">>)
            ELSE jobs' = jobs]_vars

C4_Witness ==
  /\ pc = "for_job"
  /\ i = 0
  /\ index = 2
  /\ Len(jobs.job_no) = 1
  /\ jobs.salaries[1] = <<"N","A">>
  /\ jobs.skills[1] # <<"N","A">>

Columns == {"job_no", "roles", "companies", "locations", "experience", "salaries", "skills"}

\* C7: the seven column lists of jobs always have the same length, and a step
\* either leaves all seven alone or appends exactly one value to each.
C7_ColumnsEqualLength ==
  /\ [](\A c \in Columns : Len(jobs[c]) = Len(jobs.job_no))
  /\ [][\/ jobs' = jobs
        \/ jobs' = EmptyJobs
        \/ \A c \in Columns : /\ Len(jobs'[c]) = Len(jobs[c]) + 1
                              /\ SubSeq(jobs'[c], 1, Len(jobs[c])) = jobs[c]]_vars

C7_Witness ==
  /\ ScrapeReturned
  /\ Len(loads) = 2
  /\ \A c \in Columns : Len(jobs[c]) = 2

\* C8: the job numbers of the rows scrape_naukri_jobs returns are strictly
\* increasing in recording order, hence pairwise distinct.
C8_JobNoStrictlyIncreasing ==
  ScrapeReturned =>
    \A a, b \in DOMAIN jobs.job_no : a < b => jobs.job_no[a] < jobs.job_no[b]

RECURSIVE SumOver(_, _)
SumOver(f, S) ==
  IF S = {} THEN 0
  ELSE LET v == CHOOSE v \in S : TRUE IN f[v] + SumOver(f, S \ {v})

Complete(stats, rows) ==
  /\ stats.total = rows
  /\ SumOver(stats.counts, DOMAIN stats.counts) = rows
  /\ SumOver([v \in DOMAIN stats.percentages |-> stats.percentages[v].num],
             DOMAIN stats.percentages) = 100 * rows
  /\ \A v \in DOMAIN stats.percentages : stats.percentages[v].den = rows

\* C5: once computed, the experience and salary counts each sum to the number
\* of job rows and the location counts to the number of exploded
\* (job, location) rows, so each set of percentages sums to 100.
C5_CompleteDistributions ==
  /\ "analyze_experience" \in Range(completed) => Complete(expStats, Len(df))
  /\ "analyze_salary" \in Range(completed) => Complete(salStats, Len(df))
  /\ "clean_and_analyze_locations" \in Range(completed) =>
       Complete(locStats, SumOver([k \in DOMAIN df |-> Len(df[k].locations)], DOMAIN df))

C5_Witness ==
  /\ "clean_and_analyze_locations" \in Range(completed)
  /\ locStats.total > Len(df)
  /\ Cardinality(DOMAIN locStats.counts) >= 2
  /\ Cardinality(DOMAIN expStats.counts) >= 2
  /\ Cardinality(DOMAIN salStats.counts) >= 2
  /\ \E v \in DOMAIN locStats.counts : locStats.counts[v] >= 2

\* C6: the location replace_location_patterns returns contains no whitespace,
\* no "/" and no "(" that is later followed by ")".
C6_NoLocationNoise ==
  pc = "replaced" =>
    /\ \A k \in DOMAIN locOut : ~IsSpace(locOut[k]) /\ locOut[k] # "/"
    /\ ~\E a, b \in DOMAIN locOut : a < b /\ locOut[a] = "(" /\ locOut[b] = ")"
====
